---- MODULE Spec2Model ----
(***************************************************************************)
(* rustls-spiffe: rustls client/server configurations that follow the      *)
(* SPIFFE Workload API.  The model covers                                  *)
(*   - root-store construction (build_root_store, three copies),           *)
(*   - build_client_config / build_server_config,                          *)
(*   - the two config streams (builder.build and Stream::poll_next),       *)
(*   - extract_leaf_cert / extract_spiffe_id.                              *)
(* Option<T> is a sequence of length <= 1: None == <<>>, Some(x) == <<x>>. *)
(* Libraries the crate calls (rustls, spiffe, x509-parser) are modelled at *)
(* their interface: what they return for each class of input.              *)
(***************************************************************************)
EXTENDS Naturals, Sequences, FiniteSets, TLC

VARIABLES
    trust_domains,  \* Vec<TrustDomain> given to builder(...)
    role,           \* "client" or "server": which builder was constructed
    phase,          \* "builder" | "stream" | "failed": where build() left the pipeline
    build_error,    \* Option<error> returned by build()
    stream_domains, \* SpiffeXConfigStream.trust_domains of the built stream
    produced,       \* every element the Workload API stream has produced so far
    inner,          \* elements the inner stream holds ready, not yet polled
    closed,         \* the inner stream has seen its end
    consumed,       \* elements poll_next has taken out of the inner stream
    out,            \* elements poll_next has returned as Ready(Some(_))
    last_poll,      \* what the latest poll_next returned
    ctx,            \* the X509Context handed to the config builders
    root_store,     \* who -> Option<RootCertStore>: result of each build_root_store
    client_result,  \* Option<Result<ClientConfig, _>> of build_client_config
    server_result,  \* Option<Result<ServerConfig, _>> of build_server_config
    session,        \* Option<TlsStream> of the server side after a handshake
    leaf,           \* Option<&CertificateDer> handed to extract_spiffe_id
    extracted       \* Option<Option<SpiffeId>>: result of extract_spiffe_id

vars == <<trust_domains, role, phase, build_error, stream_domains, produced,
          inner, closed, consumed, out, last_poll, ctx, root_store,
          client_result, server_result, session, leaf, extracted>>

streamVars == <<role, phase, build_error, stream_domains, produced, inner,
                closed, consumed, out, last_poll>>
buildVars == <<ctx, root_store, client_result, server_result, session>>
extractVars == <<leaf, extracted>>

----------------------------------------------------------------------------
\* Bounds of the model.
MaxTrustDomains == 2   \* longest trust-domain list given to a builder
MaxAuthorities == 2    \* most authorities in one bundle
MaxNames == 2          \* most general names in one SAN extension
MaxUpstream == 3       \* most elements the Workload API stream produces

None == <<>>
Some(x) == <<x>>

Range(s) == {s[i] : i \in 1..Len(s)}
SeqsUpTo(S, n) == UNION {[1..k -> S] : k \in 0..n}

----------------------------------------------------------------------------
\* Trust domains, authorities and bundle sets.

Domains == {"example.org", "other.org"}

\* DER contents of bundle authorities: "ca1" parses to a trust anchor the
\* verifier builder accepts, "odd" parses to a trust anchor the verifier
\* builder rejects, "junk" does not parse.
AuthorityDer == {"ca1", "odd", "junk"}

\* X509BundleSet: trust domain -> X509Bundle (its authorities, in order).
BundleSets ==
    UNION {[ds -> SeqsUpTo(AuthorityDer, MaxAuthorities)] : ds \in SUBSET Domains}

\* X509BundleSet::get_bundle
get_bundle(bundles, domain) ==
    IF domain \in DOMAIN bundles THEN Some(bundles[domain]) ELSE None

\* webpki anchor_from_trusted_cert: the trust anchor a certificate parses to.
Parsable(der) == der \in {"ca1", "odd"}
SubjectOf == ("ca1" :> "CN=ca1") @@ ("odd" :> "CN=odd")
TrustAnchor(der) == [subject |-> SubjectOf[der]]

\* RootCertStore::add_parsable_certificates: parseable certificates are
\* appended as anchors, the others are counted as ignored.
add_parsable_certificates(roots, certs) ==
    LET good == SelectSeq(certs, Parsable)
    IN [roots   |-> roots \o [i \in 1..Len(good) |-> TrustAnchor(good[i])],
        added   |-> Len(good),
        ignored |-> Len(certs) - Len(good)]

----------------------------------------------------------------------------
\* Root-store construction.  The crate holds three copies of the same code.

\* A copy that takes the authorities of every bundle of the set, whatever
\* the configured trust domains.
all_root_certs(domains, bundles) ==
    LET present == {d \in Domains : d \in DOMAIN bundles}
        RECURSIVE cat(_)
        cat(ds) == IF ds = {} THEN <<>>
                   ELSE LET d == CHOOSE x \in ds : TRUE
                        IN bundles[d] \o cat(ds \ {d})
    IN cat(present)

\* A copy that gives up at the first configured trust domain without a bundle.
RECURSIVE client_root_certs_stop_at_missing(_, _)
client_root_certs_stop_at_missing(domains, bundles) ==
    IF domains = <<>> THEN <<>>
    ELSE LET bundle == get_bundle(bundles, Head(domains))
         IN IF bundle = None THEN <<>>
            ELSE bundle[1] \o client_root_certs_stop_at_missing(Tail(domains), bundles)

\* SpiffeClientConfigStream::build_root_store, the iterator chain:
\* trust_domains.iter().filter_map(get_bundle).flat_map(authorities)
RECURSIVE client_root_certs(_, _)
client_root_certs(domains, bundles) ==
    IF domains = <<>> THEN <<>>
    ELSE LET bundle == get_bundle(bundles, Head(domains))
         IN (IF bundle = None THEN <<>> ELSE bundle[1])
            \o client_root_certs(Tail(domains), bundles)

Client_build_root_store(domains, bundles) ==
    add_parsable_certificates(<<>>, client_root_certs(domains, bundles)).roots

\* A copy that stops after the first configured trust domain.
server_root_certs_first_only(domains, bundles) ==
    IF domains = <<>> THEN <<>>
    ELSE LET bundle == get_bundle(bundles, Head(domains))
         IN IF bundle = None THEN <<>> ELSE bundle[1]

\* SpiffeServerConfigStream::build_root_store
RECURSIVE server_root_certs(_, _)
server_root_certs(domains, bundles) ==
    IF domains = <<>> THEN <<>>
    ELSE LET bundle == get_bundle(bundles, Head(domains))
         IN (IF bundle = None THEN <<>> ELSE bundle[1])
            \o server_root_certs(Tail(domains), bundles)

Server_build_root_store(domains, bundles) ==
    add_parsable_certificates(<<>>, server_root_certs(domains, bundles)).roots

\* A copy that walks the configured trust domains from the last to the first.
RECURSIVE trait_root_certs_reversed(_, _)
trait_root_certs_reversed(domains, bundles) ==
    IF domains = <<>> THEN <<>>
    ELSE LET bundle == get_bundle(bundles, Head(domains))
         IN trait_root_certs_reversed(Tail(domains), bundles)
            \o (IF bundle = None THEN <<>> ELSE bundle[1])

\* TrustDomainStore::build_root_store (default method of the trait)
RECURSIVE trait_root_certs(_, _)
trait_root_certs(domains, bundles) ==
    IF domains = <<>> THEN <<>>
    ELSE LET bundle == get_bundle(bundles, Head(domains))
         IN (IF bundle = None THEN <<>> ELSE bundle[1])
            \o trait_root_certs(Tail(domains), bundles)

Trait_build_root_store(domains, bundles) ==
    add_parsable_certificates(<<>>, trait_root_certs(domains, bundles)).roots

\* RootCertStore::is_empty
is_empty(roots) == Len(roots) = 0

----------------------------------------------------------------------------
\* Certificates, general names and scoped identifiers.

\* A URI or DNS general name of a subject-alternative-name extension.
UriName(scheme, host, path) ==
    [type |-> "URI", scheme |-> scheme, host |-> host, path |-> path]
DnsName(host) == [type |-> "DNS", scheme |-> "", host |-> host, path |-> ""]

TestServiceUri == UriName("spiffe", "example.org", "/testservice")
DbUri == UriName("spiffe", "other.org", "/db")
HttpsUri == UriName("https", "example.org", "/testservice")
NoDomainUri == UriName("spiffe", "", "/testservice")
GeneralNames == {TestServiceUri, DbUri, HttpsUri, NoDomainUri, DnsName("localhost")}

\* SpiffeId::try_from(&str): the scheme must be spiffe and the trust domain
\* non-empty; the identifier keeps the trust domain and the path.
SpiffeId_try_from(uri) ==
    IF uri.scheme = "spiffe" /\ uri.host # ""
    THEN Some([trust_domain |-> uri.host, path |-> uri.path])
    ELSE None

\* A certificate as x509-parser sees it: whether the DER parses, the state of
\* its SAN extension ("absent", "present", or "error" when reading the
\* extension fails), the general names in extension order, and the issuer and
\* public key the TLS library looks at.
Certificate(parses, san, names, issuer, pubkey) ==
    [parses |-> parses, san |-> san, names |-> names,
     issuer |-> issuer, pubkey |-> pubkey]

\* X509Svid: the spiffe crate only hands out SVIDs whose leaf carries exactly
\* one URI name, the SVID's own identifier.
SvidLeaf(uri, issuer, pubkey) ==
    Certificate(TRUE, "present", <<DnsName("localhost"), uri>>, issuer, pubkey)
Svid(uri, issuer, pubkey, private_key) ==
    [spiffe_id   |-> SpiffeId_try_from(uri)[1],
     cert_chain  |-> <<SvidLeaf(uri, issuer, pubkey)>>,
     private_key |-> private_key]

TestServiceSvid == Svid(TestServiceUri, "ca1", "k1", "k1")
DbSvid == Svid(DbUri, "odd", "k2", "k2")
MismatchSvid == Svid(TestServiceUri, "ca1", "k1", "k2")
MalformedSvid == Svid(TestServiceUri, "ca1", "k1", "garbage")
Svids == {TestServiceSvid, DbSvid, MismatchSvid, MalformedSvid}

\* X509Context: one snapshot of the Workload API.
X509Contexts == [bundle_set : BundleSets, default_svid : {None} \cup {Some(s) : s \in Svids}]

----------------------------------------------------------------------------
\* Result<T, E>, and the errors of rustls-config-stream.

NoError == [kind |-> "", cause |-> ""]
Ok(v) == [ok |-> TRUE, value |-> Some(v), err |-> NoError]
Err(kind, cause) == [ok |-> FALSE, value |-> None, err |-> [kind |-> kind, cause |-> cause]]

\* rustls: the signing key is loaded from the DER key and checked against the
\* leaf; None when the material is accepted, else the rustls::Error.
KeyError(cert_chain, private_key) ==
    IF private_key = "garbage" THEN Some("InvalidPrivateKey")
    ELSE IF private_key # cert_chain[1].pubkey THEN Some("InconsistentKeys")
    ELSE None

\* ClientConfig::builder().with_root_certificates(roots).with_client_auth_cert(chain, key)
with_client_auth_cert(roots, cert_chain, private_key) ==
    LET e == KeyError(cert_chain, private_key)
    IN IF e # None THEN Err("rustls", e[1])
       ELSE Ok([role |-> "client", roots |-> roots,
                cert_chain |-> cert_chain, private_key |-> private_key])

\* WebPkiClientVerifier::builder(roots).build()
WebPkiClientVerifier_build(roots) ==
    IF roots = <<>> THEN Err("verifier", "NoRootAnchors")
    ELSE IF \E i \in 1..Len(roots) : roots[i] = TrustAnchor("odd")
         THEN Err("verifier", "AnchorRejected")
    ELSE Ok([roots |-> roots])

\* ServerConfig::builder().with_client_cert_verifier(verifier).with_single_cert(chain, key)
with_single_cert(verifier, cert_chain, private_key) ==
    LET e == KeyError(cert_chain, private_key)
    IN IF e # None THEN Err("rustls", e[1])
       ELSE Ok([role |-> "server", roots |-> verifier.roots,
                cert_chain |-> cert_chain, private_key |-> private_key])

----------------------------------------------------------------------------
\* The config builders.

\* build_client_config without the roots.is_empty() check.
build_client_config_no_roots_check(domains, x509_context) ==
    LET roots == Client_build_root_store(domains, x509_context.bundle_set)
        svid  == x509_context.default_svid
    IN IF svid = None THEN Err("MissingCertifiedKey", "")
       ELSE LET config == with_client_auth_cert(roots, svid[1].cert_chain,
                                                svid[1].private_key)
            IN IF ~config.ok THEN Err("RustlsError", config.err.cause)
               ELSE Ok(config.value[1])

\* build_client_config that reports an absent default SVID as MissingRoots.
build_client_config_wrong_kind(domains, x509_context) ==
    LET roots == Client_build_root_store(domains, x509_context.bundle_set)
        svid  == x509_context.default_svid
    IN IF is_empty(roots) THEN Err("MissingRoots", "")
       ELSE IF svid = None THEN Err("MissingRoots", "")
       ELSE LET config == with_client_auth_cert(roots, svid[1].cert_chain,
                                                svid[1].private_key)
            IN IF ~config.ok THEN Err("RustlsError", config.err.cause)
               ELSE Ok(config.value[1])

\* build_client_config that gives up when add_parsable_certificates ignored
\* a certificate.
build_client_config_strict(domains, x509_context) ==
    LET counted == add_parsable_certificates(<<>>,
                       client_root_certs(domains, x509_context.bundle_set))
        roots == counted.roots
        svid  == x509_context.default_svid
    IN IF is_empty(roots) \/ counted.ignored > 0 THEN Err("MissingRoots", "")
       ELSE IF svid = None THEN Err("MissingCertifiedKey", "")
       ELSE LET config == with_client_auth_cert(roots, svid[1].cert_chain,
                                                svid[1].private_key)
            IN IF ~config.ok THEN Err("RustlsError", config.err.cause)
               ELSE Ok(config.value[1])

\* build_client_config that looks for the default SVID before the roots.
build_client_config_identity_first(domains, x509_context) ==
    LET roots == Client_build_root_store(domains, x509_context.bundle_set)
        svid  == x509_context.default_svid
    IN IF svid = None THEN Err("MissingCertifiedKey", "")
       ELSE IF is_empty(roots) THEN Err("MissingRoots", "")
       ELSE LET config == with_client_auth_cert(roots, svid[1].cert_chain,
                                                svid[1].private_key)
            IN IF ~config.ok THEN Err("RustlsError", config.err.cause)
               ELSE Ok(config.value[1])

\* SpiffeClientConfigStream::build_client_config
build_client_config(domains, x509_context) ==
    LET roots == Client_build_root_store(domains, x509_context.bundle_set)
        svid  == x509_context.default_svid
    IN IF is_empty(roots) THEN Err("MissingRoots", "")
       ELSE IF svid = None THEN Err("MissingCertifiedKey", "")
       ELSE LET config == with_client_auth_cert(roots, svid[1].cert_chain,
                                                svid[1].private_key)
            IN IF ~config.ok THEN Err("RustlsError", config.err.cause)
               ELSE Ok(config.value[1])

\* build_server_config that drops the cause of a rejected chain/key and
\* reports it as a verifier failure.
build_server_config_wrong_wrap(domains, x509_context) ==
    LET roots == Server_build_root_store(domains, x509_context.bundle_set)
        svid  == x509_context.default_svid
    IN IF is_empty(roots) THEN Err("MissingRoots", "")
       ELSE LET verifier == WebPkiClientVerifier_build(roots)
            IN IF ~verifier.ok THEN Err("VerifierBuilderError", verifier.err.cause)
               ELSE IF svid = None THEN Err("MissingCertifiedKey", "")
               ELSE LET config == with_single_cert(verifier.value[1],
                                      svid[1].cert_chain, svid[1].private_key)
                    IN IF ~config.ok THEN Err("VerifierBuilderError", "")
                       ELSE Ok(config.value[1])

\* build_server_config that looks for the default SVID before it builds the
\* verifier.
build_server_config_identity_first(domains, x509_context) ==
    LET roots == Server_build_root_store(domains, x509_context.bundle_set)
        svid  == x509_context.default_svid
    IN IF is_empty(roots) THEN Err("MissingRoots", "")
       ELSE IF svid = None THEN Err("MissingCertifiedKey", "")
       ELSE LET verifier == WebPkiClientVerifier_build(roots)
            IN IF ~verifier.ok THEN Err("VerifierBuilderError", verifier.err.cause)
               ELSE LET config == with_single_cert(verifier.value[1],
                                      svid[1].cert_chain, svid[1].private_key)
                    IN IF ~config.ok THEN Err("RustlsError", config.err.cause)
                       ELSE Ok(config.value[1])

\* SpiffeServerConfigStream::build_server_config
build_server_config(domains, x509_context) ==
    LET roots == Server_build_root_store(domains, x509_context.bundle_set)
        svid  == x509_context.default_svid
    IN IF is_empty(roots) THEN Err("MissingRoots", "")
       ELSE LET verifier == WebPkiClientVerifier_build(roots)
            IN IF ~verifier.ok THEN Err("VerifierBuilderError", verifier.err.cause)
               ELSE IF svid = None THEN Err("MissingCertifiedKey", "")
               ELSE LET config == with_single_cert(verifier.value[1],
                                      svid[1].cert_chain, svid[1].private_key)
                    IN IF ~config.ok THEN Err("RustlsError", config.err.cause)
                       ELSE Ok(config.value[1])

----------------------------------------------------------------------------
\* Peer identity extraction.

\* extract_leaf_cert: the first of the session's peer certificates.
extract_leaf_cert(stream) ==
    LET peer_certificates == stream.peer_certificates
    IN IF peer_certificates = None THEN None
       ELSE IF peer_certificates[1] = <<>> THEN None
       ELSE Some(Head(peer_certificates[1]))

\* A search that returns the last URI-form name instead of the first.
RECURSIVE find_last_uri(_)
find_last_uri(names) ==
    IF names = <<>> THEN None
    ELSE LET rest == find_last_uri(Tail(names))
         IN IF rest # None THEN rest
            ELSE IF Head(names).type = "URI" THEN Some(Head(names))
            ELSE None

\* general_names.iter().find_map(URI): the first URI-form name, if any.
RECURSIVE find_map_uri(_)
find_map_uri(names) ==
    IF names = <<>> THEN None
    ELSE IF Head(names).type = "URI" THEN Some(Head(names))
    ELSE find_map_uri(Tail(names))

\* extract_spiffe_id
extract_spiffe_id(cert_opt) ==
    IF cert_opt = None THEN None
    ELSE LET cert == cert_opt[1]
         IN IF ~cert.parses THEN None
            ELSE IF cert.san # "present" THEN None
            ELSE LET uri == find_map_uri(cert.names)
                 IN IF uri = None THEN None
                    ELSE SpiffeId_try_from(uri[1])

----------------------------------------------------------------------------
\* Values the variables of one part hold while another part is exercised.

StreamIdle ==
    /\ role = "none" /\ phase = "none" /\ build_error = None
    /\ stream_domains = <<>> /\ produced = <<>> /\ inner = <<>>
    /\ closed = FALSE /\ consumed = <<>> /\ out = <<>> /\ last_poll = "none"

Callers == {"client", "server", "trait"}

BuildIdle ==
    /\ root_store = [w \in Callers |-> None]
    /\ client_result = None /\ server_result = None /\ session = None

ExtractIdle == leaf = None /\ extracted = None

EmptyContext == [bundle_set |-> <<>>, default_svid |-> None]

----------------------------------------------------------------------------
\* SpecRoots: the three build_root_store copies on every trust-domain list
\* and bundle set within the bounds.

InitRoots ==
    /\ trust_domains \in SeqsUpTo(Domains, MaxTrustDomains)
    /\ ctx \in {c \in X509Contexts : c.default_svid = None}
    /\ StreamIdle /\ BuildIdle /\ ExtractIdle

ClientBuildRootStore ==
    /\ root_store["client"] = None
    /\ root_store' = [root_store EXCEPT !["client"] =
                         Some(Client_build_root_store(trust_domains, ctx.bundle_set))]
    /\ UNCHANGED <<trust_domains, streamVars, ctx, client_result, server_result,
                   session, extractVars>>

ServerBuildRootStore ==
    /\ root_store["server"] = None
    /\ root_store' = [root_store EXCEPT !["server"] =
                         Some(Server_build_root_store(trust_domains, ctx.bundle_set))]
    /\ UNCHANGED <<trust_domains, streamVars, ctx, client_result, server_result,
                   session, extractVars>>

TraitBuildRootStore ==
    /\ root_store["trait"] = None
    /\ root_store' = [root_store EXCEPT !["trait"] =
                         Some(Trait_build_root_store(trust_domains, ctx.bundle_set))]
    /\ UNCHANGED <<trust_domains, streamVars, ctx, client_result, server_result,
                   session, extractVars>>

NextRoots == ClientBuildRootStore \/ ServerBuildRootStore \/ TraitBuildRootStore

SpecRoots == InitRoots /\ [][NextRoots]_vars

----------------------------------------------------------------------------
\* SpecBuild: both config builders on one X509Context, then a mutual
\* handshake between the two configurations and the server-side extraction.

InitBuild ==
    /\ trust_domains \in SeqsUpTo(Domains, MaxTrustDomains)
    /\ ctx \in X509Contexts
    /\ StreamIdle /\ BuildIdle /\ ExtractIdle

\* build_client_config on ctx; the root store it builds on the way is kept.
BuildClientConfig ==
    /\ client_result = None
    /\ root_store' = [root_store EXCEPT !["client"] =
                         Some(Client_build_root_store(trust_domains, ctx.bundle_set))]
    /\ client_result' = Some(build_client_config(trust_domains, ctx))
    /\ UNCHANGED <<trust_domains, streamVars, ctx, server_result,
                   session, extractVars>>

\* build_server_config on ctx; the root store it builds on the way is kept.
BuildServerConfig ==
    /\ server_result = None
    /\ root_store' = [root_store EXCEPT !["server"] =
                         Some(Server_build_root_store(trust_domains, ctx.bundle_set))]
    /\ server_result' = Some(build_server_config(trust_domains, ctx))
    /\ UNCHANGED <<trust_domains, streamVars, ctx, client_result,
                   session, extractVars>>

\* rustls, both directions of a mutual handshake: each side's leaf must chain
\* to an anchor of the other side's root store.
HandshakeOk(client_config, server_config) ==
    /\ TrustAnchor(server_config.cert_chain[1].issuer) \in Range(client_config.roots)
    /\ TrustAnchor(client_config.cert_chain[1].issuer) \in Range(server_config.roots)

\* tests/integration_test.rs: connector.connect on the client side,
\* start.into_stream(config) on the server side.
Handshake ==
    /\ session = None
    /\ client_result # None /\ client_result[1].ok
    /\ server_result # None /\ server_result[1].ok
    /\ LET c == client_result[1].value[1]
           s == server_result[1].value[1]
       IN session' = IF HandshakeOk(c, s)
                     THEN Some([established |-> TRUE,
                                peer_certificates |-> Some(c.cert_chain)])
                     ELSE Some([established |-> FALSE, peer_certificates |-> None])
    /\ UNCHANGED <<trust_domains, streamVars, ctx, root_store, client_result,
                   server_result, extractVars>>

ExtractLeafCert ==
    /\ session # None /\ session[1].established
    /\ leaf = None
    /\ leaf' = Some(extract_leaf_cert(session[1]))
    /\ UNCHANGED <<trust_domains, streamVars, buildVars, extracted>>

ExtractSpiffeId ==
    /\ leaf # None
    /\ extracted = None
    /\ extracted' = Some(extract_spiffe_id(leaf[1]))
    /\ UNCHANGED <<trust_domains, streamVars, buildVars, leaf>>

NextBuild ==
    \/ BuildClientConfig
    \/ BuildServerConfig
    \/ Handshake
    \/ ExtractLeafCert
    \/ ExtractSpiffeId

SpecBuild == InitBuild /\ [][NextBuild]_vars

----------------------------------------------------------------------------
\* SpecExtract: the two extractors on every session within the bounds.

CertificateDers ==
    {Certificate(FALSE, "absent", <<>>, "ca1", "k1")}
    \cup {Certificate(TRUE, s, <<>>, "ca1", "k1") : s \in {"absent", "error"}}
    \cup {Certificate(TRUE, "present", n, "ca1", "k1") :
             n \in SeqsUpTo(GeneralNames, MaxNames)}

\* An issuing certificate that follows the leaf in a presented chain.
IssuerCertificate == Certificate(TRUE, "present", <<DbUri>>, "ca1", "k9")

Sessions ==
    {[established |-> TRUE, peer_certificates |-> p] :
        p \in {None, Some(<<>>)}
              \cup {Some(<<c>>) : c \in CertificateDers}
              \cup {Some(<<c, IssuerCertificate>>) : c \in CertificateDers}}

InitExtract ==
    /\ trust_domains = <<>>
    /\ ctx = EmptyContext
    /\ StreamIdle
    /\ root_store = [w \in Callers |-> None]
    /\ client_result = None /\ server_result = None
    /\ session \in {Some(x) : x \in Sessions}
    /\ ExtractIdle

NextExtract == ExtractLeafCert \/ ExtractSpiffeId

SpecExtract == InitExtract /\ [][NextExtract]_vars

----------------------------------------------------------------------------
\* Properties of root-store construction (SpecRoots).

\* The authorities, as DER, of the bundles of the configured trust domains.
ConfiguredDer ==
    UNION {Range(ctx.bundle_set[d]) :
              d \in Range(trust_domains) \cap DOMAIN ctx.bundle_set}

\* The authorities of the bundles of trust domains that are not configured.
ForeignDer ==
    UNION {Range(ctx.bundle_set[d]) :
              d \in DOMAIN ctx.bundle_set \ Range(trust_domains)}

\* C1: every anchor of a root store built from (D, B) comes from an authority
\* of a bundle whose trust domain is in D; an authority found only in bundles
\* of trust domains outside D is never in the store.
C1_OnlyConfiguredDomains ==
    \A w \in Callers :
        root_store[w] # None =>
            /\ \A i \in 1..Len(root_store[w][1]) :
                  \E der \in ConfiguredDer :
                      Parsable(der) /\ root_store[w][1][i] = TrustAnchor(der)
            /\ \A der \in ForeignDer \ ConfiguredDer :
                  Parsable(der) => TrustAnchor(der) \notin Range(root_store[w][1])

\* C1 witness: D = [example.org], the set also holds a bundle for other.org
\* with a parseable authority, and all three stores hold ca1 only.
C1_Witness ==
    /\ trust_domains = <<"example.org">>
    /\ ctx.bundle_set = [d \in Domains |-> IF d = "example.org" THEN <<"ca1">> ELSE <<"odd">>]
    /\ \A w \in Callers : root_store[w] = Some(<<TrustAnchor("ca1")>>)

----------------------------------------------------------------------------
\* Properties of the config builders (SpecBuild).

BuilderResults == {client_result, server_result}

\* The configured trust domains yield at least one usable anchor and none the
\* verifier builder rejects.
ValidRoots ==
    /\ \E der \in ConfiguredDer : Parsable(der)
    /\ "odd" \notin ConfiguredDer

\* C2: when no configured trust domain has a bundle in the snapshot, both
\* builders return MissingRoots; no Ok configuration has zero anchors.
C2_NoBundleMissingRoots ==
    \A r \in BuilderResults :
        r # None =>
            /\ (Range(trust_domains) \cap DOMAIN ctx.bundle_set = {}
                    => r[1] = Err("MissingRoots", ""))
            /\ (r[1].ok => r[1].value[1].roots # <<>>)

\* C2 witness: configured example.org, the only bundle is for other.org, and
\* both builders have returned MissingRoots.
C2_Witness ==
    /\ trust_domains = <<"example.org">>
    /\ DOMAIN ctx.bundle_set = {"other.org"}
    /\ ctx.bundle_set["other.org"] = <<"ca1">>
    /\ client_result = Some(Err("MissingRoots", ""))
    /\ server_result = Some(Err("MissingRoots", ""))

\* C3: with valid roots and no default SVID both builders return
\* MissingCertifiedKey (the MissingIdentity failure).
C3_NoIdentityMissingIdentity ==
    \A r \in BuilderResults :
        (r # None /\ ValidRoots /\ ctx.default_svid = None)
            => r[1] = Err("MissingCertifiedKey", "")

\* C3 witness: a snapshot with valid roots and no default SVID, on which both
\* builders have returned MissingCertifiedKey.
C3_Witness ==
    /\ ValidRoots /\ ctx.default_svid = None
    /\ client_result = Some(Err("MissingCertifiedKey", ""))
    /\ server_result = Some(Err("MissingCertifiedKey", ""))

\* The TLS assembly step is reached by the client builder, resp. the server
\* builder, and rejects the chain/key of the default SVID.
ClientAssemblyRejects ==
    /\ \E der \in ConfiguredDer : Parsable(der)
    /\ ctx.default_svid # None
    /\ KeyError(ctx.default_svid[1].cert_chain, ctx.default_svid[1].private_key) # None
ServerAssemblyRejects == ClientAssemblyRejects /\ "odd" \notin ConfiguredDer

\* C8: when the root store is non-empty, a default SVID is present and the
\* TLS assembly step rejects its chain/key, the builder returns RustlsError
\* (TlsConfigRejected) wrapping rustls' error, and no configuration.
C8_RejectedMaterial ==
    /\ (client_result # None /\ ClientAssemblyRejects) =>
          /\ client_result[1].value = None
          /\ client_result[1].err =
                [kind |-> "RustlsError",
                 cause |-> KeyError(ctx.default_svid[1].cert_chain,
                                    ctx.default_svid[1].private_key)[1]]
    /\ (server_result # None /\ ServerAssemblyRejects) =>
          /\ server_result[1].value = None
          /\ server_result[1].err =
                [kind |-> "RustlsError",
                 cause |-> KeyError(ctx.default_svid[1].cert_chain,
                                    ctx.default_svid[1].private_key)[1]]

\* C8 witness: a chain/key mismatch under valid roots, reported by both
\* builders as RustlsError(InconsistentKeys).
C8_Witness ==
    /\ ValidRoots /\ ctx.default_svid = Some(MismatchSvid)
    /\ client_result = Some(Err("RustlsError", "InconsistentKeys"))
    /\ server_result = Some(Err("RustlsError", "InconsistentKeys"))

\* The snapshot of the end-to-end scenario: valid roots for the configured
\* trust domains, and a default SVID with a matching key whose issuer is one
\* of those roots.
HandshakeScenario ==
    /\ ValidRoots
    /\ ctx.default_svid # None
    /\ KeyError(ctx.default_svid[1].cert_chain, ctx.default_svid[1].private_key) = None
    /\ ctx.default_svid[1].cert_chain[1].issuer \in ConfiguredDer

\* C7: in the end-to-end scenario both builders return Ok, the mutual
\* handshake between the two configurations succeeds, and the server-side
\* extraction returns exactly the SPIFFE ID of the client's default SVID.
C7_EndToEnd ==
    HandshakeScenario =>
        /\ \A r \in BuilderResults : r # None => r[1].ok
        /\ session # None => session[1].established
        /\ leaf # None => leaf[1] = Some(ctx.default_svid[1].cert_chain[1])
        /\ extracted # None => extracted[1] = Some(ctx.default_svid[1].spiffe_id)

\* C7 witness: the scenario of the integration test, run to the end.
C7_Witness ==
    /\ trust_domains = <<"example.org">>
    /\ ctx = [bundle_set |-> [d \in {"example.org"} |-> <<"ca1">>],
              default_svid |-> Some(TestServiceSvid)]
    /\ session # None /\ session[1].established
    /\ extracted = Some(Some([trust_domain |-> "example.org", path |-> "/testservice"]))

----------------------------------------------------------------------------
\* Properties of extract_spiffe_id (SpecExtract).

\* The certificate handed to extract_spiffe_id is readable: it was given,
\* parses, and has a subject-alternative-name extension.
ReadableLeaf ==
    /\ leaf # None /\ leaf[1] # None
    /\ leaf[1][1].parses /\ leaf[1][1].san = "present"

LeafNames == leaf[1][1].names

\* Positions of the URI-form names, resp. of the URI-form names that parse as
\* a SPIFFE ID.
UriPositions == {i \in 1..Len(LeafNames) : LeafNames[i].type = "URI"}
ValidPositions == {i \in UriPositions : SpiffeId_try_from(LeafNames[i]) # None}

Least(S) == CHOOSE i \in S : \A j \in S : i <= j

\* C6 as stated: nothing for an absent or unreadable certificate or when no
\* URI-form name parses as a SPIFFE ID; otherwise the first URI-form name, in
\* extension order, that parses as a SPIFFE ID.
C6_FirstValidUri ==
    extracted # None =>
        extracted[1] = IF ~ReadableLeaf \/ ValidPositions = {} THEN None
                       ELSE SpiffeId_try_from(LeafNames[Least(ValidPositions)])

\* C6 amended: nothing for an absent or unreadable certificate or when the
\* extension has no URI-form name; otherwise the result of parsing the first
\* URI-form name, which is nothing when that name is not a valid SPIFFE ID,
\* whatever URI names follow it.
C6_FirstUriOnly ==
    extracted # None =>
        extracted[1] = IF ~ReadableLeaf \/ UriPositions = {} THEN None
                       ELSE SpiffeId_try_from(LeafNames[Least(UriPositions)])

\* C6 witness: a certificate whose URI names are [invalid, valid], for which
\* the extraction has returned nothing.
C6_Witness ==
    /\ ReadableLeaf
    /\ LeafNames = <<HttpsUri, TestServiceUri>>
    /\ extracted = Some(None)

----------------------------------------------------------------------------
\* Spec: one config stream, from its builder to the elements it returns.

\* Trust-domain lists a builder is constructed with.
StreamTrustDomains == {<<"example.org">>, <<"other.org", "example.org">>, <<>>}

Snapshot(bundle_set, svid_opt) == [bundle_set |-> bundle_set, default_svid |-> svid_opt]
OnlyExample(authorities) == [d \in {"example.org"} |-> authorities]
OnlyOther(authorities) == [d \in {"other.org"} |-> authorities]

\* Result<X509Context, GrpcClientError>: what the Workload API stream yields.
UpstreamItems ==
    {Ok(Snapshot(OnlyExample(<<"ca1">>), Some(TestServiceSvid))),
     Ok(Snapshot([d \in Domains |-> IF d = "example.org" THEN <<"junk", "ca1">>
                                                           ELSE <<"odd">>],
                 Some(TestServiceSvid))),
     Ok(Snapshot(OnlyOther(<<"ca1">>), Some(TestServiceSvid))),
     Ok(Snapshot(OnlyExample(<<"ca1">>), None)),
     Ok(Snapshot(OnlyExample(<<"odd">>), Some(TestServiceSvid))),
     Ok(Snapshot(OnlyExample(<<"ca1">>), Some(MismatchSvid))),
     Err("grpc", "Unavailable"),
     Err("grpc", "PermissionDenied")}

Init ==
    /\ role \in {"client", "server"}
    /\ trust_domains \in StreamTrustDomains
    /\ phase = "builder"
    /\ build_error = None
    /\ stream_domains = <<>>
    /\ produced = <<>> /\ inner = <<>> /\ closed = FALSE
    /\ consumed = <<>> /\ out = <<>> /\ last_poll = "none"
    /\ ctx = EmptyContext
    /\ BuildIdle /\ ExtractIdle

\* A build() that moves the trust domains out of the builder into the stream
\* instead of copying them.
BuildOutcome_moves_domains(outcome, client_error_kind, stream_error_kind) ==
    /\ phase \in {"builder", "failed"}
    /\ CASE outcome = "client_error" ->
              /\ phase' = "failed"
              /\ build_error' = Some([kind |-> client_error_kind, cause |-> "default_client"])
              /\ UNCHANGED <<stream_domains, trust_domains>>
         [] outcome = "stream_error" ->
              /\ phase' = "failed"
              /\ build_error' = Some([kind |-> stream_error_kind, cause |-> "stream_x509_contexts"])
              /\ stream_domains' = stream_domains
              /\ trust_domains' = <<>>
         [] OTHER ->
              /\ phase' = "stream"
              /\ build_error' = None
              /\ stream_domains' = trust_domains
              /\ trust_domains' = <<>>
    /\ UNCHANGED <<role, produced, inner, closed, consumed, out,
                   last_poll, buildVars, extractVars>>

\* What build() leaves behind, for each way its two awaits can end:
\* WorkloadApiClient::default() fails, stream_x509_contexts() fails, or both
\* succeed and the stream takes a copy of the builder's trust domains.
BuildOutcome(outcome, client_error_kind, stream_error_kind) ==
    /\ phase \in {"builder", "failed"}
    /\ CASE outcome = "client_error" ->
              /\ phase' = "failed"
              /\ build_error' = Some([kind |-> client_error_kind, cause |-> "default_client"])
              /\ UNCHANGED stream_domains
         [] outcome = "stream_error" ->
              /\ phase' = "failed"
              /\ build_error' = Some([kind |-> stream_error_kind, cause |-> "stream_x509_contexts"])
              /\ UNCHANGED stream_domains
         [] OTHER ->
              /\ phase' = "stream"
              /\ build_error' = None
              /\ stream_domains' = trust_domains
    /\ UNCHANGED <<trust_domains, role, produced, inner, closed, consumed, out,
                   last_poll, buildVars, extractVars>>

BuildOutcomes == {"ok", "client_error", "stream_error"}

\* SpiffeClientConfigStreamBuilder::build
ClientBuild ==
    /\ role = "client"
    /\ \E outcome \in BuildOutcomes :
          BuildOutcome(outcome, "StreamBuilderError", "StreamError")

\* SpiffeServerConfigStreamBuilder::build
ServerBuild ==
    /\ role = "server"
    /\ \E outcome \in BuildOutcomes :
          BuildOutcome(outcome, "StreamBuilderError", "StreamError")

\* The Workload API stream behind `inner` gets one more element ready.
UpstreamYield ==
    /\ phase = "stream" /\ ~closed
    /\ Len(produced) < MaxUpstream
    /\ \E item \in UpstreamItems :
          /\ produced' = Append(produced, item)
          /\ inner' = Append(inner, item)
    /\ UNCHANGED <<trust_domains, role, phase, build_error, stream_domains, closed,
                   consumed, out, last_poll, buildVars, extractVars>>

\* The Workload API stream behind `inner` ends.
UpstreamEnd ==
    /\ phase = "stream" /\ ~closed
    /\ closed' = TRUE
    /\ UNCHANGED <<trust_domains, role, phase, build_error, stream_domains, produced,
                   inner, consumed, out, last_poll, buildVars, extractVars>>

\* self.inner.as_mut().poll_next(cx), before anything is taken out of it.
InnerPoll ==
    IF inner # <<>> THEN [ready |-> TRUE, item |-> Some(Head(inner))]
    ELSE IF closed THEN [ready |-> TRUE, item |-> None]
    ELSE [ready |-> FALSE, item |-> None]

\* The three shapes of a poll_next return value.
ReturnPending ==
    /\ last_poll' = "Pending"
    /\ UNCHANGED <<inner, consumed, out>>
ReturnEnd ==
    /\ last_poll' = "End"
    /\ UNCHANGED <<inner, consumed, out>>
ReturnItem(element) ==
    /\ last_poll' = "Item"
    /\ consumed' = Append(consumed, Head(inner))
    /\ inner' = Tail(inner)
    /\ out' = Append(out, element)

PollFrame ==
    UNCHANGED <<trust_domains, role, phase, build_error, stream_domains, produced,
                closed, buildVars, extractVars>>

\* A poll_next that, finding two snapshots ready, drops the older one and
\* builds from the newer.
ClientPollNext_coalesce ==
    /\ role = "client" /\ phase = "stream"
    /\ LET p == InnerPoll
       IN IF ~p.ready THEN ReturnPending
          ELSE IF p.item = None THEN ReturnEnd
          ELSE IF ~p.item[1].ok
               THEN ReturnItem(Err("StreamError", p.item[1].err.cause))
          ELSE IF Len(inner) >= 2 /\ inner[2].ok
               THEN /\ last_poll' = "Item"
                    /\ consumed' = consumed \o SubSeq(inner, 1, 2)
                    /\ inner' = Tail(Tail(inner))
                    /\ out' = Append(out, build_client_config(stream_domains,
                                                              inner[2].value[1]))
          ELSE ReturnItem(build_client_config(stream_domains, p.item[1].value[1]))
    /\ PollFrame

\* A poll_next that ends the sequence once it has returned an error element.
ClientPollNext_fused ==
    /\ role = "client" /\ phase = "stream"
    /\ LET p == InnerPoll
       IN IF out # <<>> /\ ~out[Len(out)].ok THEN ReturnEnd
          ELSE IF ~p.ready THEN ReturnPending
          ELSE IF p.item = None THEN ReturnEnd
          ELSE IF ~p.item[1].ok
               THEN ReturnItem(Err("StreamError", p.item[1].err.cause))
          ELSE ReturnItem(build_client_config(stream_domains, p.item[1].value[1]))
    /\ PollFrame

\* A poll_next whose stream keeps the root store of its last Ok element and
\* adds the next snapshot's anchors to it.
ClientPollNext_keeps_anchors ==
    /\ role = "client" /\ phase = "stream"
    /\ LET p == InnerPoll
           kept == IF out # <<>> /\ out[Len(out)].ok
                   THEN out[Len(out)].value[1].roots ELSE <<>>
       IN IF ~p.ready THEN ReturnPending
          ELSE IF p.item = None THEN ReturnEnd
          ELSE IF ~p.item[1].ok
               THEN ReturnItem(Err("StreamError", p.item[1].err.cause))
          ELSE LET built == build_client_config(stream_domains, p.item[1].value[1])
               IN IF ~built.ok THEN ReturnItem(built)
                  ELSE ReturnItem(Ok([built.value[1] EXCEPT
                                         !.roots = kept \o built.value[1].roots]))
    /\ PollFrame

\* A poll_next that takes a ready snapshot out of the inner stream and returns
\* Pending, leaving its configuration for the next call.
ClientPollNext_take_then_pending ==
    /\ role = "client" /\ phase = "stream"
    /\ LET p == InnerPoll
       IN IF ~p.ready THEN ReturnPending
          ELSE IF p.item = None THEN ReturnEnd
          ELSE IF ~p.item[1].ok
               THEN ReturnItem(Err("StreamError", p.item[1].err.cause))
          ELSE /\ last_poll' = "Pending"
               /\ consumed' = Append(consumed, Head(inner))
               /\ inner' = Tail(inner)
               /\ UNCHANGED out
    /\ PollFrame

\* impl Stream for SpiffeClientConfigStream: poll_next
ClientPollNext ==
    /\ role = "client" /\ phase = "stream"
    /\ LET p == InnerPoll
       IN IF ~p.ready THEN ReturnPending
          ELSE IF p.item = None THEN ReturnEnd
          ELSE IF ~p.item[1].ok
               THEN ReturnItem(Err("StreamError", p.item[1].err.cause))
          ELSE ReturnItem(build_client_config(stream_domains, p.item[1].value[1]))
    /\ PollFrame

\* A poll_next that takes an upstream failure out of the inner stream and
\* reports nothing for it.
ServerPollNext_swallow ==
    /\ role = "server" /\ phase = "stream"
    /\ LET p == InnerPoll
       IN IF ~p.ready THEN ReturnPending
          ELSE IF p.item = None THEN ReturnEnd
          ELSE IF ~p.item[1].ok
               THEN /\ last_poll' = "Pending"
                    /\ consumed' = Append(consumed, Head(inner))
                    /\ inner' = Tail(inner)
                    /\ UNCHANGED out
          ELSE ReturnItem(build_server_config(stream_domains, p.item[1].value[1]))
    /\ PollFrame

\* A poll_next that reports the end of the sequence whenever the inner stream
\* has nothing ready.
ServerPollNext_early_end ==
    /\ role = "server" /\ phase = "stream"
    /\ LET p == InnerPoll
       IN IF ~p.ready THEN ReturnEnd
          ELSE IF p.item = None THEN ReturnEnd
          ELSE IF ~p.item[1].ok
               THEN ReturnItem(Err("StreamError", p.item[1].err.cause))
          ELSE ReturnItem(build_server_config(stream_domains, p.item[1].value[1]))
    /\ PollFrame

\* impl Stream for SpiffeServerConfigStream: poll_next
ServerPollNext ==
    /\ role = "server" /\ phase = "stream"
    /\ LET p == InnerPoll
       IN IF ~p.ready THEN ReturnPending
          ELSE IF p.item = None THEN ReturnEnd
          ELSE IF ~p.item[1].ok
               THEN ReturnItem(Err("StreamError", p.item[1].err.cause))
          ELSE ReturnItem(build_server_config(stream_domains, p.item[1].value[1]))
    /\ PollFrame

Next ==
    \/ ClientBuild
    \/ ServerBuild
    \/ UpstreamYield
    \/ UpstreamEnd
    \/ ClientPollNext
    \/ ServerPollNext

Spec == Init /\ [][Next]_vars

----------------------------------------------------------------------------
\* Properties of the config streams (Spec).

\* The element the mapping rule assigns to one upstream element: a failure
\* becomes StreamError around its cause, a snapshot goes through the config
\* builder of the stream's role with the trust domains given to the builder.
Mapped(element) ==
    IF ~element.ok THEN Err("StreamError", element.err.cause)
    ELSE IF role = "client" THEN build_client_config(trust_domains, element.value[1])
    ELSE build_server_config(trust_domains, element.value[1])

\* C4: the mapping is order-preserving and 1:1.  The elements taken from the
\* upstream are a prefix of what it produced, in order, with the rest still
\* waiting in the upstream (no look-ahead, no dropping); as many outputs were
\* returned as upstream elements were taken (no buffering, no coalescing); and
\* the Nth output is the image of the Nth upstream element.
C4_OneToOneInOrder ==
    /\ consumed \o inner = produced
    /\ Len(out) = Len(consumed)
    /\ \A n \in 1..Len(out) : n <= Len(consumed) => out[n] = Mapped(consumed[n])

\* C4 witness: three upstream elements, a failure between two different
\* snapshots, all pulled and each answered at its own position.
C4_Witness ==
    /\ Len(out) = 3 /\ inner = <<>>
    /\ out[1].ok /\ ~out[2].ok /\ out[3].ok
    /\ consumed[1] # consumed[3]
    /\ ~consumed[2].ok

\* C5: every upstream failure taken from the upstream has exactly one output
\* element, at its own position, which is StreamError around the upstream
\* cause; StreamError appears at no other position; nothing taken from the
\* upstream is left without an output.
C5_FailurePassedThrough ==
    /\ Len(out) = Len(consumed)
    /\ \A n \in 1..Len(consumed) :
          n <= Len(out) =>
              /\ ~consumed[n].ok =>
                    /\ ~out[n].ok /\ out[n].value = None
                    /\ out[n].err = [kind |-> "StreamError", cause |-> consumed[n].err.cause]
              /\ out[n].err.kind = "StreamError" => ~consumed[n].ok

\* C5 witness: two different upstream failures in a row, each returned as its
\* own StreamError.
C5_Witness ==
    /\ Len(out) >= 2
    /\ consumed[1] = Err("grpc", "Unavailable")
    /\ consumed[2] = Err("grpc", "PermissionDenied")
    /\ out[1] = Err("StreamError", "Unavailable")
    /\ out[2] = Err("StreamError", "PermissionDenied")

ErrorKinds ==
    {"StreamError", "MissingRoots", "MissingCertifiedKey", "VerifierBuilderError",
     "RustlsError"}

\* An error element was returned before position n.
FailedBefore(n) == \E m \in 1..(n - 1) : ~out[m].ok

\* C9: failures are element-local.  After error elements of any kind the
\* stream is still a stream with the trust domains of its builder, it has not
\* ended unless the upstream has, and every element returned after a failure
\* is what its upstream element alone determines: a good snapshot yields the
\* Ok configuration it yields on a stream that never failed.
C9_FailureIsElementLocal ==
    (out # <<>> /\ \E m \in 1..Len(out) : ~out[m].ok) =>
        /\ phase = "stream" /\ stream_domains = trust_domains
        /\ \A m \in 1..Len(out) : ~out[m].ok => out[m].err.kind \in ErrorKinds
        /\ last_poll = "End" => closed /\ inner = <<>>
        /\ Len(out) = Len(consumed)
        /\ \A n \in 1..Len(out) :
              (n <= Len(consumed) /\ FailedBefore(n)) => out[n] = Mapped(consumed[n])

\* C9 witness: a snapshot rejected by the builder, then an upstream failure,
\* then a good snapshot that yields an Ok configuration.
C9_Witness ==
    /\ Len(out) = 3
    /\ ~out[1].ok /\ out[1].err.kind \in ErrorKinds \ {"StreamError"}
    /\ out[2] = Err("StreamError", "Unavailable")
    /\ out[3].ok /\ out[3].value[1].roots = <<TrustAnchor("ca1")>>

\* A step in which poll_next returned something new.
PollStep == last_poll' # last_poll \/ out' # out

\* C10: the sequence ends exactly when the upstream is exhausted.  A poll
\* returns end-of-sequence if and only if the upstream has ended and holds no
\* more elements; returning it adds no element to the output, and once it was
\* returned nothing is left in, or produced by, the upstream.
C10_EndsWithUpstream ==
    [][/\ PollStep =>
             /\ (last_poll' = "End") <=> (closed /\ inner = <<>>)
             /\ last_poll' = "End" => out' = out
       /\ last_poll = "End" => (produced' = produced /\ consumed = produced)]_vars

\* C10 witness: the upstream ended after two elements, both were pulled, and
\* the next poll returned end-of-sequence.
C10_Witness ==
    /\ last_poll = "End"
    /\ closed /\ Len(produced) = 2 /\ Len(out) = 2

----------------------------------------------------------------------------
\* Further properties of the config streams (Spec).

\* The anchors the bundles of one snapshot hold for the trust domains given
\* to the builder.
SnapshotAnchors(x509_context) ==
    {TrustAnchor(der) :
        der \in {x \in UNION {Range(x509_context.bundle_set[d]) :
                                 d \in Range(trust_domains)
                                       \cap DOMAIN x509_context.bundle_set} :
                    Parsable(x)}}

\* C11: every Ok element is fully formed.  Its upstream element is a
\* snapshot; its root store is non-empty and holds exactly anchors of that
\* snapshot (for the server, anchors its verifier builder accepted); its
\* chain and key are those of that snapshot's default SVID, which is present
\* and was accepted by the TLS assembly step.
C11_OkIsFullyFormed ==
    \A n \in 1..Len(out) :
        (n <= Len(consumed) /\ out[n].ok) =>
            /\ consumed[n].ok
            /\ out[n].value # None /\ out[n].err = NoError
            /\ LET snapshot == consumed[n].value[1]
                   config   == out[n].value[1]
               IN /\ config.role = role
                  /\ config.roots # <<>>
                  /\ Range(config.roots) = SnapshotAnchors(snapshot)
                  /\ role = "server" => WebPkiClientVerifier_build(config.roots).ok
                  /\ snapshot.default_svid # None
                  /\ config.cert_chain = snapshot.default_svid[1].cert_chain
                  /\ config.private_key = snapshot.default_svid[1].private_key
                  /\ KeyError(config.cert_chain, config.private_key) = None

\* C11 witness: two Ok elements from two different snapshots, the second of
\* which holds an unparseable authority and a bundle of a foreign domain.
C11_Witness ==
    /\ trust_domains = <<"example.org">>
    /\ Len(out) >= 2 /\ out[1].ok /\ out[2].ok
    /\ consumed[1] # consumed[2]
    /\ DOMAIN consumed[2].value[1].bundle_set = Domains

\* C12: a build() that fails because the upstream identity source could not
\* be initialized - the default client could not be created, or the stream of
\* X.509 contexts could not be opened - reports StreamBuilderError; StreamError
\* only ever is an element of a built stream, for an upstream element that
\* reported a failure.
C12_BuildFailureIsBuilderError ==
    /\ phase = "failed" =>
          /\ build_error # None
          /\ build_error[1].kind = "StreamBuilderError"
    /\ build_error # None => build_error[1].kind # "StreamError"
    /\ \A n \in 1..Len(out) :
          (n <= Len(consumed) /\ out[n].err.kind = "StreamError") => ~consumed[n].ok

\* C13: the trust domains of a stream are those given to its builder, and no
\* operation changes either list: not a build() call, failed or successful,
\* and not a poll_next, whatever the upstream holds (a snapshot, a failure,
\* nothing yet, or its end).
C13_TrustDomainsImmutable ==
    [][/\ trust_domains' = trust_domains
       /\ phase' = "stream" => stream_domains' = trust_domains'
       /\ (phase = "stream" /\ phase' = "stream") => stream_domains' = stream_domains]_vars

\* C13 witness: a stream built for two trust domains that has returned a
\* snapshot's element, a failure's element and the end of the sequence.
C13_Witness ==
    /\ phase = "stream"
    /\ trust_domains = <<"other.org", "example.org">>
    /\ stream_domains = trust_domains
    /\ Len(out) = 2 /\ consumed[1].ok /\ ~consumed[2].ok
    /\ last_poll = "End"

----------------------------------------------------------------------------
\* Order of the failure conditions in the config builders (SpecBuild).

\* The snapshot gives the configured trust domains at least one parseable
\* authority; one of their authorities makes the verifier builder fail; the
\* snapshot has no default SVID.
HasAnchor == \E der \in ConfiguredDer : Parsable(der)
VerifierRejects == "odd" \in ConfiguredDer
NoIdentity == ctx.default_svid = None

\* C14 as stated: the server builder fails with MissingRoots first, then with
\* MissingCertifiedKey, and only then with VerifierBuilderError or
\* RustlsError; a snapshot with no default SVID and anchors the verifier
\* builder rejects gives MissingCertifiedKey.
C14_ServerIdentityBeforeVerifier ==
    server_result # None =>
        /\ ~HasAnchor => server_result[1] = Err("MissingRoots", "")
        /\ (HasAnchor /\ NoIdentity) => server_result[1] = Err("MissingCertifiedKey", "")
        /\ server_result[1].err.kind \in {"VerifierBuilderError", "RustlsError"}
              => (HasAnchor /\ ~NoIdentity)

\* C14 amended: the server builder fails with MissingRoots first, then with
\* VerifierBuilderError, then with MissingCertifiedKey, and only then with
\* RustlsError; a snapshot with no default SVID and anchors the verifier
\* builder rejects gives VerifierBuilderError.
C14_ServerVerifierBeforeIdentity ==
    server_result # None =>
        /\ ~HasAnchor => server_result[1] = Err("MissingRoots", "")
        /\ (HasAnchor /\ VerifierRejects)
              => (~server_result[1].ok /\ server_result[1].err.kind = "VerifierBuilderError")
        /\ (HasAnchor /\ ~VerifierRejects /\ NoIdentity)
              => server_result[1] = Err("MissingCertifiedKey", "")
        /\ server_result[1].err.kind = "RustlsError"
              => (HasAnchor /\ ~VerifierRejects /\ ~NoIdentity)

\* C14 witness: no default SVID and an anchor the verifier builder rejects;
\* the server builder has returned VerifierBuilderError.
C14_Witness ==
    /\ HasAnchor /\ VerifierRejects /\ NoIdentity
    /\ server_result # None
    /\ server_result[1].err.kind = "VerifierBuilderError"

\* C15: the client builder fails with MissingRoots whenever the root store is
\* empty, whatever the default SVID; with MissingCertifiedKey when the store
\* is non-empty and there is no default SVID; and with RustlsError only when
\* the store is non-empty and a default SVID is present.
C15_ClientOrder ==
    client_result # None =>
        /\ ~HasAnchor => client_result[1] = Err("MissingRoots", "")
        /\ (HasAnchor /\ NoIdentity) => client_result[1] = Err("MissingCertifiedKey", "")
        /\ client_result[1].err.kind = "RustlsError" => (HasAnchor /\ ~NoIdentity)
        /\ (HasAnchor /\ ~NoIdentity) => client_result[1].err.kind \in {"", "RustlsError"}

\* C15 witness: an empty root store together with a default SVID whose key
\* does not match; the client builder has returned MissingRoots.
C15_Witness ==
    /\ ~HasAnchor /\ ctx.default_svid = Some(MismatchSvid)
    /\ trust_domains # <<>>
    /\ client_result = Some(Err("MissingRoots", ""))

----------------------------------------------------------------------------
\* Which authorities reach the root store (SpecBuild).

\* The result of the builder that built root store w.
ResultOf(w) == IF w = "client" THEN client_result ELSE server_result

\* Every (trust-domain position, authority position) the configured list
\* reaches in the snapshot's bundles, and those holding a parseable authority.
ReachedPositions ==
    {p \in (1..Len(trust_domains)) \X (1..MaxAuthorities) :
        /\ trust_domains[p[1]] \in DOMAIN ctx.bundle_set
        /\ p[2] <= Len(ctx.bundle_set[trust_domains[p[1]]])}
ParsablePositions ==
    {p \in ReachedPositions : Parsable(ctx.bundle_set[trust_domains[p[1]]][p[2]])}

\* The anchors of the parseable authorities of the configured domains' bundles.
ConfiguredAnchors == {TrustAnchor(der) : der \in {x \in ConfiguredDer : Parsable(x)}}

\* C16: configured trust domains without a bundle are skipped.  As soon as
\* one configured domain has a bundle with a parseable authority, the root
\* store is non-empty, holds one anchor for each parseable authority of the
\* configured domains that have a bundle and nothing else, and the builder
\* does not return MissingRoots, however many configured domains lack a bundle.
C16_MissingBundlesSkipped ==
    \A w \in {"client", "server"} :
        (root_store[w] # None /\ HasAnchor) =>
            /\ root_store[w][1] # <<>>
            /\ Range(root_store[w][1]) = ConfiguredAnchors
            /\ Len(root_store[w][1]) = Cardinality(ParsablePositions)
            /\ ResultOf(w) # None
            /\ ResultOf(w)[1].err.kind # "MissingRoots"

\* C16 witness: other.org is configured first and has no bundle, example.org
\* has one; both stores hold its anchor and the client builder returned Ok.
C16_Witness ==
    /\ trust_domains = <<"other.org", "example.org">>
    /\ DOMAIN ctx.bundle_set = {"example.org"}
    /\ \A w \in {"client", "server"} : root_store[w] = Some(<<TrustAnchor("ca1")>>)
    /\ client_result # None /\ client_result[1].ok

\* C17: authorities that do not parse are skipped one by one.  The root store
\* holds exactly the anchors of the parseable authorities of the matching
\* bundles, as many as there are such authorities, whatever the number of
\* ignored ones; and the builder returns MissingRoots if and only if that
\* number is zero - no matching bundle, empty matching bundles, or matching
\* bundles with unparseable authorities only.
C17_UnparsableSkipped ==
    \A w \in {"client", "server"} :
        root_store[w] # None =>
            /\ Range(root_store[w][1]) = ConfiguredAnchors
            /\ Len(root_store[w][1]) = Cardinality(ParsablePositions)
            /\ ResultOf(w) # None
            /\ (ResultOf(w)[1] = Err("MissingRoots", ""))
                   <=> (Cardinality(ParsablePositions) = 0)
            /\ ResultOf(w)[1].ok =>
                  ResultOf(w)[1].value[1].roots = root_store[w][1]

\* C17 witness: the matching bundle holds an unparseable authority before a
\* parseable one; the store holds the parseable one and both builders
\* returned Ok.
C17_Witness ==
    /\ trust_domains = <<"example.org">>
    /\ "example.org" \in DOMAIN ctx.bundle_set
    /\ ctx.bundle_set["example.org"] = <<"junk", "ca1">>
    /\ \A w \in {"client", "server"} :
          /\ root_store[w] = Some(<<TrustAnchor("ca1")>>)
          /\ ResultOf(w) # None /\ ResultOf(w)[1].ok

----------------------------------------------------------------------------
\* History and suspension of the config streams (Spec).

\* C18: an output element depends on its own upstream element and the trust
\* domains only.  Wherever the same upstream element occurs, after whatever
\* elements, the same output is returned for it; and an Ok configuration
\* holds no anchor and no chain or key that is not in its own snapshot.
C18_NoHistory ==
    /\ \A i \in 1..Len(out) : \A j \in 1..Len(out) :
          (i <= Len(consumed) /\ j <= Len(consumed) /\ consumed[i] = consumed[j])
              => out[i] = out[j]
    /\ \A n \in 1..Len(out) :
          (n <= Len(consumed) /\ consumed[n].ok /\ out[n].ok) =>
              /\ Range(out[n].value[1].roots) \subseteq SnapshotAnchors(consumed[n].value[1])
              /\ consumed[n].value[1].default_svid # None
              /\ out[n].value[1].cert_chain =
                    consumed[n].value[1].default_svid[1].cert_chain
              /\ out[n].value[1].private_key =
                    consumed[n].value[1].default_svid[1].private_key

\* C18 witness: the same snapshot at positions 1 and 3 with a snapshot of
\* other anchors between them, all three answered Ok, the first and the
\* third with the same configuration.
C18_Witness ==
    /\ Len(out) = 3
    /\ consumed[1] = consumed[3] /\ consumed[2] # consumed[1]
    /\ out[1].ok /\ out[2].ok /\ out[3] = out[1]
    /\ out[2].value[1].roots # out[1].value[1].roots

\* C19: a pull returns Pending exactly when the upstream has no element ready
\* and has not ended, and then it emits nothing, takes nothing from the
\* upstream and changes no state of the stream.  However pulls that returned
\* Pending are interleaved with upstream arrivals, the elements returned are
\* the images of the upstream's elements from the first on, one each and
\* complete (an Ok with a whole configuration or an Err with its kind), and
\* every upstream element is either answered or still waiting in the
\* upstream: none is lost, none is answered twice.
C19_PendingLeavesNoTrace ==
    [][/\ PollStep =>
             /\ (last_poll' = "Pending") <=> (inner = <<>> /\ ~closed)
             /\ last_poll' = "Pending" =>
                   UNCHANGED <<trust_domains, role, phase, build_error, stream_domains,
                               produced, inner, closed, consumed, out>>
       /\ produced' = consumed' \o inner'
       /\ Len(out') = Len(consumed')
       /\ \A n \in 1..Len(out') :
             /\ n <= Len(produced') => out'[n] = Mapped(produced'[n])
             /\ out'[n].ok <=> (out'[n].value # None /\ out'[n].err = NoError)]_vars

\* C19 witness: a first element was returned, the next pull returned Pending
\* and was given up, the upstream has since got two more elements ready, and
\* both are still waiting in it.
C19_Witness ==
    /\ last_poll = "Pending"
    /\ Len(out) = 1 /\ Len(inner) = 2
    /\ produced = consumed \o inner

----------------------------------------------------------------------------
\* Equivalence of the three root-store constructions (SpecRoots).

\* The places an anchor can come from: authority j of the bundle of the i-th
\* configured trust domain, where that bundle exists and the authority parses.
AnchorPlaces ==
    {p \in (1..Len(trust_domains)) \X (1..MaxAuthorities) :
        /\ trust_domains[p[1]] \in DOMAIN ctx.bundle_set
        /\ p[2] <= Len(ctx.bundle_set[trust_domains[p[1]]])
        /\ Parsable(ctx.bundle_set[trust_domains[p[1]]][p[2]])}

\* Trust-domain list order first, authority order within a bundle second.
PlaceBefore(p, q) == p[1] < q[1] \/ (p[1] = q[1] /\ p[2] < q[2])

\* The position in the store of the anchor that comes from place p.
PlaceRank(p) == Cardinality({q \in AnchorPlaces : PlaceBefore(q, p)}) + 1

\* C20: the three root-store constructions are equivalent.  On the same
\* trust-domain list and bundle set the client stream's, the server stream's
\* and the trait's build_root_store return the same anchors in the same
\* order, which is the order of the trust-domain list and, within one bundle,
\* the order of its authorities, one anchor for each parseable authority.
C20_ThreeCopiesAgree ==
    /\ \A v \in Callers : \A w \in Callers :
          (root_store[v] # None /\ root_store[w] # None) => root_store[v] = root_store[w]
    /\ \A w \in Callers :
          root_store[w] # None =>
              /\ Len(root_store[w][1]) = Cardinality(AnchorPlaces)
              /\ \A p \in AnchorPlaces :
                    root_store[w][1][PlaceRank(p)] =
                        TrustAnchor(ctx.bundle_set[trust_domains[p[1]]][p[2]])

\* C20 witness: two trust domains, each with a bundle of two authorities of
\* which one or both parse, and all three constructions have returned the
\* anchors of other.org before the anchor of example.org.
C20_Witness ==
    /\ trust_domains = <<"other.org", "example.org">>
    /\ ctx.bundle_set = [d \in Domains |-> IF d = "other.org" THEN <<"odd", "ca1">>
                                           ELSE <<"junk", "ca1">>]
    /\ \A w \in Callers :
          root_store[w] = Some(<<TrustAnchor("odd"), TrustAnchor("ca1"), TrustAnchor("ca1")>>)

====
